---- MODULE Spec2Model ----
(***************************************************************************)
(* Model of the KCI BNI City station analytics backend (src/backend.py):   *)
(* the five category generators, the aggregator get_all_data and its       *)
(* key-renaming transforms.                                                *)
(*                                                                         *)
(* Numbers.  Counts are integers.  A percentage rounded to 1 decimal is    *)
(* kept in tenths of a percent (48.0 is 480), a rate rounded to 2 decimals *)
(* in hundredths (10.0 is 1000), a frequency rounded to 1 decimal in       *)
(* tenths (6.5 is 65).  Ratios and jitters are kept in thousandths.        *)
(* Floating point products are modelled by exact rational arithmetic: a    *)
(* product that is an integer, or a percentage that is an exact tie, can   *)
(* come out one unit lower in the binary floating point of the program.    *)
(*                                                                         *)
(* Randomness.  The process-wide generator of the random module is the     *)
(* pair (tape, pos): tape is the cyclic sequence of levels 0..MaxLevel the *)
(* generator will deliver, fixed but unknown when the process starts, and  *)
(* pos counts the draws made so far.  A draw at level l of randint(lo, hi) *)
(* is lo + l*(hi-lo)/MaxLevel, of uniform(a, b) is a + l*(b-a)/MaxLevel,   *)
(* so level 0 is the lower end of every range and MaxLevel the upper end.  *)
(*                                                                         *)
(* Specifications.  Spec serves one request to any endpoint, over every    *)
(* tape of period at most MaxPeriod.  SpecBeh serves one request to the    *)
(* behaviour-correlation endpoint over tapes of period 15, which give each *)
(* age bucket draws of its own.  SpecLoop serves up to MaxTasks requests   *)
(* on one event loop and keeps of each only the draws it makes.  SpecOps   *)
(* and SpecDemog serve one request to the operational-efficiency and to    *)
(* the demographics endpoint over tapes of period OpsPeriod and            *)
(* DemogPeriod, SpecAll one request to the aggregate endpoint over the     *)
(* tapes of SpecBeh turned to the place of the age loop in get_all_data.   *)
(***************************************************************************)
EXTENDS Integers, Sequences, FiniteSets, TLC

VARIABLES
    tape,       \* random module: the levels the generator delivers, cyclically
    pos,        \* random module: number of draws made so far
    now,        \* the clock: index of the current day
    pc,         \* position of the request being served ("failed": it raised)
    call,       \* the endpoint that was requested
    date,       \* the date query parameter of the request (NoDate = absent)
    all_date,   \* get_all_data: its local target_date
    ops,        \* OperationalEfficiencyResponse returned, or NoReport
    demog,      \* DemografiResponse returned, or NoReport
    perj,       \* SegmentasiPerjalananResponse returned, or NoReport
    loy,        \* SegmentasiLoyaltasResponse returned, or NoReport
    beh,        \* BehaviorCorrelationResponse returned, or NoReport
    beh_locals, \* locals of get_behavior_correlation that its response drops
    resp,       \* the dict returned by get_all_data, or NoReport
    tasks,      \* event loop: the coroutine of every request it serves
    running,    \* event loop: the task that has the thread, or 0
    drawlog     \* random module: who made which draws, in the order made

vars == <<tape, pos, now, pc, call, date, all_date, ops, demog, perj, loy, beh,
          beh_locals, resp, tasks, running, drawlog>>

\* the state of one request served alone, and the state of the event loop
reqvars == <<now, pc, call, date, all_date, ops, demog, perj, loy, beh, beh_locals, resp>>
loopvars == <<tasks, running, drawlog>>

(***************************************************************************)
(* Bounds of the model.                                                    *)
(***************************************************************************)
NLevels == 3     \* levels per random range: lower end, ..., upper end
MaxPeriod == 3   \* longest period of a tape
MaxDay == 1      \* the clock runs over days 0..MaxDay
MaxTasks == 2    \* requests the event loop serves at the same time
DemogPeriod == 5 \* period of the tapes of the demographics specification
OpsPeriod == 4   \* period of the tapes of the operational specification

MaxLevel == NLevels - 1
Levels == 0..MaxLevel
Tapes == UNION {[1..L -> Levels] : L \in 1..MaxPeriod}

NoDate == "None"
NoReport == [none |-> TRUE]

\* Values of the `date` query parameter: absent, empty, well-formed, malformed.
DateParams == {NoDate, "", "2025-01-15", "31/31/xx"}

(***************************************************************************)
(* Arithmetic helpers.                                                     *)
(***************************************************************************)
RECURSIVE SumSeq(_)
SumSeq(s) == IF s = <<>> THEN 0 ELSE Head(s) + SumSeq(Tail(s))

\* round(p/q) to the nearest integer, ties to even, for p >= 0 and q > 0:
\* Python's round(x, n) with x an exact multiple of 10^-n scaled to integers.
RoundDiv(p, q) ==
    LET f == p \div q
        r2 == 2 * (p - f * q)
    IN  IF r2 < q THEN f
        ELSE IF r2 > q THEN f + 1
        ELSE IF f % 2 = 0 THEN f ELSE f + 1

\* round((count / total) * 100, 1), in tenths of a percent
Pct1(count, total) == RoundDiv(count * 1000, total)

\* round((count / total) * 100, 2), in hundredths of a percent
Pct2(count, total) == RoundDiv(count * 10000, total)

\* mutant: the last element with the greatest count
ArgMaxCount_m(s) ==
    CHOOSE i \in 1..Len(s) :
        /\ \A j \in 1..Len(s) : s[j].count <= s[i].count
        /\ \A j \in (i + 1)..Len(s) : s[j].count < s[i].count

\* index of the first element of s with the greatest count: max(s, key=count)
ArgMaxCount(s) ==
    CHOOSE i \in 1..Len(s) :
        /\ \A j \in 1..Len(s) : s[j].count <= s[i].count
        /\ \A j \in 1..(i - 1) : s[j].count < s[i].count

(***************************************************************************)
(* The random module.  k is the index of the draw, counted from the start  *)
(* of the process.                                                         *)
(***************************************************************************)
Lvl(k) == tape[(k % Len(tape)) + 1]

\* random.randint(lo, hi)
RandInt(lo, hi, k) == lo + (Lvl(k) * (hi - lo)) \div MaxLevel

\* random.uniform(a, b) with a, b in thousandths: the numerator of the draw
\* over the denominator 1000 * MaxLevel
UniformNum(a, b, k) == a * MaxLevel + Lvl(k) * (b - a)
UniformDen == 1000 * MaxLevel

\* mutant: int(base_value * random.uniform(-variance, variance)), the jitter
\* itself instead of the jittered value
generate_daily_data_m(base_value, v, k) ==
    (base_value * UniformNum(-v, v, k)) \div UniformDen

\* generate_daily_data(base_value, variance), variance v in thousandths:
\* int(base_value * (1 + random.uniform(-variance, variance)))
generate_daily_data(base_value, v, k) ==
    (base_value * (UniformDen + UniformNum(-v, v, k))) \div UniformDen

\* get_date(): datetime.now().strftime("%Y-%m-%d")
DayString == <<"2025-12-31", "2026-01-01", "2026-01-02", "2026-01-03">>
get_date == DayString[now + 1]

\* mutant: `date if date is not None else get_date()`
TargetDate_m(d) == IF d = NoDate THEN get_date ELSE d

\* `date or get_date()`: None and the empty string are falsy
TargetDate(d) == IF d = NoDate \/ d = "" THEN get_date ELSE d

(***************************************************************************)
(* Kategori 1: get_operational_efficiency.  p is the number of draws made  *)
(* before the call; the function makes OpsDraws draws.                     *)
(***************************************************************************)
FirstHour == 6
LastHour == 22
\* mutant: range(6, 22), the last hour dropped
Hours_m == [i \in 1..(LastHour - FirstHour) |-> FirstHour + i - 1]

\* for hour in range(6, 23)
Hours == [i \in 1..(LastHour - FirstHour + 1) |-> FirstHour + i - 1]

OpsTotal(p) == RandInt(4000, 6000, p)

\* mutant: the base of hour 19 drawn from the off-peak range
TrafficHour_m(p, i) ==
    LET hour == Hours[i + 1]
        peak == (7 <= hour /\ hour <= 9) \/ (16 <= hour /\ hour < 19)
        base_count == IF peak THEN RandInt(400, 600, p + 1 + 2 * i)
                              ELSE RandInt(50, 200, p + 1 + 2 * i)
    IN  [hour |-> hour,
         count |-> generate_daily_data(base_count, 150, p + 2 + 2 * i),
         period |-> IF 7 <= hour /\ hour <= 9 THEN "Morning Peak"
                    ELSE IF 16 <= hour /\ hour <= 19 THEN "Evening Peak"
                    ELSE ""]

\* one iteration of the traffic_per_hour loop, i = 0 for the first hour
TrafficHour(p, i) ==
    LET hour == Hours[i + 1]
        peak == (7 <= hour /\ hour <= 9) \/ (16 <= hour /\ hour <= 19)
        base_count == IF peak THEN RandInt(400, 600, p + 1 + 2 * i)
                              ELSE RandInt(50, 200, p + 1 + 2 * i)
    IN  [hour |-> hour,
         count |-> generate_daily_data(base_count, 150, p + 2 + 2 * i),
         period |-> IF 7 <= hour /\ hour <= 9 THEN "Morning Peak"
                    ELSE IF 16 <= hour /\ hour <= 19 THEN "Evening Peak"
                    ELSE ""]

TrafficPerHour(p) == [i \in 1..Len(Hours) |-> TrafficHour(p, i - 1)]

Zones == <<"North", "West">>
GatesPerZone == 4
Upper(zone) == IF zone = "North" THEN "NORTH" ELSE "WEST"

\* mutant: the rate rounded to 1 decimal instead of 2
UtilizationRate_m(count, total_transactions) == 10 * Pct1(count, total_transactions)

\* utilization_rate of a gate: round((count / total_transactions) * 100, 2)
UtilizationRate(count, total_transactions) == Pct2(count, total_transactions)

\* one iteration of the gate loops, g = 0..7 in list order, q the first draw
Gate(q, g, total_transactions) ==
    LET zone == Zones[(g \div GatesPerZone) + 1]
        i == (g % GatesPerZone) + 1
        base_count == IF zone = "North" THEN RandInt(450, 650, q + 2 * g)
                                        ELSE RandInt(400, 600, q + 2 * g)
        count == generate_daily_data(base_count, 200, q + 1 + 2 * g)
    IN  [gate_id |-> "TAP-" \o Upper(zone) \o "-00" \o ToString(i),
         zone |-> zone,
         count |-> count,
         utilization_rate |-> UtilizationRate(count, total_transactions)]

GateUtilization(q, total_transactions) ==
    [g \in 1..(Len(Zones) * GatesPerZone) |-> Gate(q, g - 1, total_transactions)]

\* mutant: the zone filter dropped from the West sum (every gate is counted)
ZoneCount_m(gates, zone) ==
    SumSeq([g \in 1..Len(gates) |->
              IF zone = "North" /\ gates[g].zone # zone THEN 0 ELSE gates[g].count])

\* sum(g.count for g in gate_utilization if g.zone == zone)
ZoneCount(gates, zone) ==
    SumSeq([g \in 1..Len(gates) |->
              IF gates[g].zone = zone THEN gates[g].count ELSE 0])

TrafficByZone(gates, total_transactions) ==
    [z \in 1..Len(Zones) |->
        [zone |-> "TAP-" \o Upper(Zones[z]),
         count |-> ZoneCount(gates, Zones[z]),
         percentage |-> Pct1(ZoneCount(gates, Zones[z]), total_transactions)]]

\* s.replace('TAP-', '') for the zone names and gate ids the program builds
TapSuffixes ==
    {Upper(Zones[z]) : z \in 1..Len(Zones)} \cup
    {Upper(Zones[z]) \o "-00" \o ToString(i) : z \in 1..Len(Zones), i \in 1..GatesPerZone}

StripTap(s) == IF \E t \in TapSuffixes : s = "TAP-" \o t
               THEN CHOOSE t \in TapSuffixes : s = "TAP-" \o t
               ELSE s

Directions == <<"IN", "OUT">>

\* count of one balance record: int(zone_data.count * random.uniform(0.45, 0.55))
BalanceCount(zone_count, k) ==
    (zone_count * UniformNum(450, 550, k)) \div UniformDen

\* the balance_direction loops, b = 0..3: North IN, North OUT, West IN, West OUT
Balance(q, b, zones) ==
    LET zone_data == zones[(b \div Len(Directions)) + 1]
        count == BalanceCount(zone_data.count, q + b)
    IN  [zone |-> StripTap(zone_data.zone),
         direction |-> Directions[(b % Len(Directions)) + 1],
         count |-> count,
         percentage |-> Pct1(count, zone_data.count)]

BalanceDirection(q, zones) ==
    [b \in 1..(Len(zones) * Len(Directions)) |-> Balance(q, b - 1, zones)]

\* sum(t.count for t in traffic_per_hour if lo <= t.hour <= hi)
PeakSum(hours, lo, hi) ==
    SumSeq([i \in 1..Len(hours) |->
              IF lo <= hours[i].hour /\ hours[i].hour <= hi
              THEN hours[i].count ELSE 0])

OpsSummary(total_transactions, hours, gates, zones) ==
    LET morning_peak == PeakSum(hours, 7, 9)
        evening_peak == PeakSum(hours, 16, 19)
        util_sum == SumSeq([g \in 1..Len(gates) |-> gates[g].utilization_rate])
    IN  [morning_peak_transactions |-> morning_peak,
         morning_peak_percentage |-> Pct1(morning_peak, total_transactions),
         evening_peak_transactions |-> evening_peak,
         evening_peak_percentage |-> Pct1(evening_peak, total_transactions),
         avg_gate_utilization_rate |-> RoundDiv(util_sum, Len(gates)),
         busiest_gate |-> gates[ArgMaxCount(gates)].gate_id,
         busiest_zone |-> zones[ArgMaxCount(zones)].zone]

\* no division of get_operational_efficiency raises ZeroDivisionError: the
\* divisors are total_transactions and, in the balance loop, each zone count
OpsDivisionsDefined(p) ==
    LET total_transactions == OpsTotal(p)
        gates == GateUtilization(p + 1 + 2 * Len(Hours), total_transactions)
    IN  /\ total_transactions # 0
        /\ \A z \in 1..Len(Zones) : ZoneCount(gates, Zones[z]) # 0

OpsDraws == 1 + 2 * Len(Hours) + 2 * Len(Zones) * GatesPerZone
              + Len(Zones) * Len(Directions)

get_operational_efficiency(d, p) ==
    LET total_transactions == OpsTotal(p)
        hours == TrafficPerHour(p)
        gates == GateUtilization(p + 1 + 2 * Len(Hours), total_transactions)
        zones == TrafficByZone(gates, total_transactions)
        balance == BalanceDirection(
                      p + 1 + 2 * Len(Hours) + 2 * Len(Zones) * GatesPerZone, zones)
    IN  [date |-> TargetDate(d),
         total_transactions |-> total_transactions,
         traffic_per_hour |-> hours,
         gate_utilization |-> gates,
         traffic_by_zone |-> zones,
         balance_direction |-> balance,
         summary |-> OpsSummary(total_transactions, hours, gates, zones)]

(***************************************************************************)
(* Kategori 3: get_demografi.  It makes DemogDraws draws.                  *)
(***************************************************************************)
AgeRanges == <<[age_range |-> "18-24", lo |-> 300, hi |-> 500],
               [age_range |-> "25-34", lo |-> 800, hi |-> 1200],
               [age_range |-> "35-44", lo |-> 1000, hi |-> 1500],
               [age_range |-> "45-54", lo |-> 700, hi |-> 1000],
               [age_range |-> "55+", lo |-> 200, hi |-> 400]>>

Occupations == <<[occupation |-> "Karyawan Swasta", lo |-> 1500, hi |-> 2200],
                 [occupation |-> "PNS/BUMN", lo |-> 600, hi |-> 900],
                 [occupation |-> "Pelajar/Mahasiswa", lo |-> 400, hi |-> 700],
                 [occupation |-> "Wiraswasta", lo |-> 500, hi |-> 800],
                 [occupation |-> "Wisatawan", lo |-> 100, hi |-> 300]>>

Stations == <<[station |-> "Bekasi", lo |-> 700, hi |-> 1000],
              [station |-> "Cikarang", lo |-> 400, hi |-> 600],
              [station |-> "Depok", lo |-> 500, hi |-> 700],
              [station |-> "Bogor", lo |-> 400, hi |-> 600],
              [station |-> "Tangerang", lo |-> 300, hi |-> 500],
              [station |-> "Sudirman", lo |-> 300, hi |-> 500],
              [station |-> "Karet", lo |-> 300, hi |-> 500],
              [station |-> "Pasar Minggu", lo |-> 100, hi |-> 300],
              [station |-> "Tanah Abang", lo |-> 200, hi |-> 400]>>

\* count of bucket i of a table: the base is draw qb + i - 1 (the list literal
\* is evaluated first), the jitter is draw qj + i - 1 (the loop)
BucketCount(table, i, v, qb, qj) ==
    generate_daily_data(RandInt(table[i].lo, table[i].hi, qb + i - 1), v, qj + i - 1)

AgeDistribution(p, total_passengers) ==
    [i \in 1..Len(AgeRanges) |->
        LET count == BucketCount(AgeRanges, i, 100, p + 1, p + 1 + Len(AgeRanges))
        IN  [age_range |-> AgeRanges[i].age_range,
             count |-> count,
             percentage |-> Pct1(count, total_passengers)]]

OccupationDistribution(q, total_passengers) ==
    [i \in 1..Len(Occupations) |->
        LET count == BucketCount(Occupations, i, 150, q, q + Len(Occupations))
        IN  [occupation |-> Occupations[i].occupation,
             count |-> count,
             percentage |-> Pct1(count, total_passengers)]]

\* pria_count = generate_daily_data(int(total_passengers * 0.52), 0.05)
PriaCount(total_passengers, k) ==
    generate_daily_data((total_passengers * 520) \div 1000, 50, k)

\* mutant: the female count computed from its own share instead of the complement
WanitaCount_m(total_passengers, pria_count) == (total_passengers * 480) \div 1000

\* wanita_count = total_passengers - pria_count
WanitaCount(total_passengers, pria_count) == total_passengers - pria_count

GenderDistribution(total_passengers, k) ==
    LET pria_count == PriaCount(total_passengers, k)
        wanita_count == WanitaCount(total_passengers, pria_count)
    IN  <<[gender |-> "Pria", count |-> pria_count,
           percentage |-> Pct1(pria_count, total_passengers)],
          [gender |-> "Wanita", count |-> wanita_count,
           percentage |-> Pct1(wanita_count, total_passengers)]>>

\* the 9 station buckets of get_demografi and get_segmentasi_perjalanan
StationDistribution(q, total) ==
    [i \in 1..Len(Stations) |->
        LET count == BucketCount(Stations, i, 200, q, q + Len(Stations))
        IN  [station |-> Stations[i].station,
             count |-> count,
             percentage |-> Pct1(count, total)]]

\* mutant: a label without '-' counted at 55
TwiceMidpoint_m(age_range) ==
    CASE age_range = "18-24" -> 18 + 24
      [] age_range = "25-34" -> 25 + 34
      [] age_range = "35-44" -> 35 + 44
      [] age_range = "45-54" -> 45 + 54
      [] OTHER -> 2 * 55

\* twice the midpoint of an age-range label: int(lo) + int(hi) of "lo-hi",
\* 60 (so 120) for a label without '-'
TwiceMidpoint(age_range) ==
    CASE age_range = "18-24" -> 18 + 24
      [] age_range = "25-34" -> 25 + 34
      [] age_range = "35-44" -> 35 + 44
      [] age_range = "45-54" -> 45 + 54
      [] OTHER -> 2 * 60

\* round(avg_age, 1) in tenths
AverageAge ==
    RoundDiv(10 * SumSeq([i \in 1..Len(AgeRanges) |->
                            TwiceMidpoint(AgeRanges[i].age_range)]),
             2 * Len(AgeRanges))

DemogSummary(total_passengers, ages, occs, stations) ==
    LET productive_age ==
            SumSeq([i \in 1..Len(ages) |->
                      IF ages[i].age_range \in {"25-34", "35-44"}
                      THEN ages[i].count ELSE 0])
        workers ==
            SumSeq([i \in 1..Len(occs) |->
                      IF occs[i].occupation \in {"Karyawan Swasta", "PNS/BUMN"}
                      THEN occs[i].count ELSE 0])
    IN  [average_age |-> AverageAge,
         productive_age_passengers |-> productive_age,
         productive_age_percentage |-> Pct1(productive_age, total_passengers),
         worker_passengers |-> workers,
         worker_percentage |-> Pct1(workers, total_passengers),
         dominant_origin_station |-> stations[ArgMaxCount(stations)].station]

\* the divisor of get_demografi is total_passengers
DemogDivisionsDefined(p) == RandInt(3500, 5000, p) # 0

DemogDraws == 1 + 2 * Len(AgeRanges) + 2 * Len(Occupations) + 1 + 2 * Len(Stations)

get_demografi(d, p) ==
    LET total_passengers == RandInt(3500, 5000, p)
        ages == AgeDistribution(p, total_passengers)
        q1 == p + 1 + 2 * Len(AgeRanges)
        occs == OccupationDistribution(q1, total_passengers)
        q2 == q1 + 2 * Len(Occupations)
        genders == GenderDistribution(total_passengers, q2)
        stations == StationDistribution(q2 + 1, total_passengers)
    IN  [date |-> TargetDate(d),
         total_passengers |-> total_passengers,
         age_distribution |-> ages,
         occupation_distribution |-> occs,
         gender_distribution |-> genders,
         origin_station_distribution |-> stations,
         summary |-> DemogSummary(total_passengers, ages, occs, stations)]

(***************************************************************************)
(* Kategori 4: get_segmentasi_perjalanan.  It makes PerjDraws draws.       *)
(***************************************************************************)
\* in_count = generate_daily_data(int(total_transactions * 0.51), 0.03)
InCount(total_transactions, k) ==
    generate_daily_data((total_transactions * 510) \div 1000, 30, k)

\* mutant: the OUT count computed from its own share instead of the complement
OutCount_m(total_transactions, in_count) == (total_transactions * 490) \div 1000

\* out_count = total_transactions - in_count
OutCount(total_transactions, in_count) == total_transactions - in_count

DirectionDistribution(total_transactions, k) ==
    LET in_count == InCount(total_transactions, k)
        out_count == OutCount(total_transactions, in_count)
    IN  <<[direction |-> "IN", count |-> in_count,
           percentage |-> Pct1(in_count, total_transactions)],
          [direction |-> "OUT", count |-> out_count,
           percentage |-> Pct1(out_count, total_transactions)]>>

\* the three bases are draws q, q+1, q+2, the three jitters q+3, q+4, q+5
TimeTravelDistribution(q, total_transactions) ==
    LET morning == generate_daily_data(RandInt(1200, 1800, q), 150, q + 3)
        evening == generate_daily_data(RandInt(1200, 1800, q + 1), 150, q + 4)
        off_peak == generate_daily_data(RandInt(600, 1000, q + 2), 200, q + 5)
    IN  <<[time_segment |-> "Morning (07:00-09:00)", count |-> morning,
           percentage |-> Pct1(morning, total_transactions)],
          [time_segment |-> "Evening (16:00-19:00)", count |-> evening,
           percentage |-> Pct1(evening, total_transactions)],
          [time_segment |-> "Off-Peak", count |-> off_peak,
           percentage |-> Pct1(off_peak, total_transactions)]>>

PerjSummary(origins, directions, times) ==
    LET top_origin == origins[ArgMaxCount(origins)]
        dominant_direction == directions[ArgMaxCount(directions)]
        dominant_time == times[ArgMaxCount(times)]
    IN  [top_origin_station |-> top_origin.station,
         top_origin_count |-> top_origin.count,
         top_origin_percentage |-> top_origin.percentage,
         dominant_direction |-> dominant_direction.direction,
         dominant_time_segment |-> dominant_time.time_segment,
         dominant_time_percentage |-> dominant_time.percentage]

\* the divisor of get_segmentasi_perjalanan is total_transactions
PerjDivisionsDefined(p) == RandInt(4000, 6000, p) # 0

PerjDraws == 1 + 2 * Len(Stations) + 1 + 6

get_segmentasi_perjalanan(d, p) ==
    LET total_transactions == RandInt(4000, 6000, p)
        origins == StationDistribution(p + 1, total_transactions)
        q1 == p + 1 + 2 * Len(Stations)
        directions == DirectionDistribution(total_transactions, q1)
        times == TimeTravelDistribution(q1 + 1, total_transactions)
    IN  [date |-> TargetDate(d),
         total_transactions |-> total_transactions,
         origin_distribution |-> origins,
         direction_distribution |-> directions,
         time_travel_distribution |-> times,
         summary |-> PerjSummary(origins, directions, times)]

(***************************************************************************)
(* Kategori 5: get_segmentasi_loyaltas.  It makes LoyDraws draws.          *)
(***************************************************************************)
LoyaltyTiers == <<[segment |-> "High Loyalty (>=12x)", lo |-> 1200, hi |-> 1800,
                   v |-> 150, min_freq |-> 12, max_freq |-> 14],
                  [segment |-> "Medium Loyalty (7-11x)", lo |-> 1000, hi |-> 1500,
                   v |-> 150, min_freq |-> 7, max_freq |-> 11],
                  [segment |-> "Low Loyalty (<7x)", lo |-> 800, hi |-> 1200,
                   v |-> 200, min_freq |-> 1, max_freq |-> 6]>>

\* counts of the three tiers: bases are draws q.., jitters the draws after them
TierCounts(q) ==
    [i \in 1..Len(LoyaltyTiers) |->
        generate_daily_data(RandInt(LoyaltyTiers[i].lo, LoyaltyTiers[i].hi, q + i - 1),
                            LoyaltyTiers[i].v, q + Len(LoyaltyTiers) + i - 1)]

\* mutant: the tier percentage taken of total_passengers
TierPercentage_m(count, total_loyalty, total_passengers) == Pct1(count, total_passengers)

\* ls.percentage = round((ls.count / total_loyalty) * 100, 1)
TierPercentage(count, total_loyalty, total_passengers) == Pct1(count, total_loyalty)

LoyaltySegments(q, total_passengers) ==
    LET counts == TierCounts(q)
        total_loyalty == SumSeq(counts)
    IN  [i \in 1..Len(LoyaltyTiers) |->
            [segment |-> LoyaltyTiers[i].segment,
             count |-> counts[i],
             percentage |-> TierPercentage(counts[i], total_loyalty, total_passengers),
             min_freq |-> LoyaltyTiers[i].min_freq,
             max_freq |-> LoyaltyTiers[i].max_freq]]

\* occupations_base: frequency range in thousandths, passenger range
OccupationsBase == <<[occupation |-> "Karyawan Swasta", flo |-> 8000, fhi |-> 10000,
                      lo |-> 1500, hi |-> 2200],
                     [occupation |-> "PNS/BUMN", flo |-> 8500, fhi |-> 10500,
                      lo |-> 600, hi |-> 900],
                     [occupation |-> "Pelajar/Mahasiswa", flo |-> 5000, fhi |-> 7000,
                      lo |-> 400, hi |-> 700],
                     [occupation |-> "Wiraswasta", flo |-> 6000, fhi |-> 8000,
                      lo |-> 500, hi |-> 800],
                     [occupation |-> "Wisatawan", flo |-> 2000, fhi |-> 4000,
                      lo |-> 100, hi |-> 300]>>

\* round(base + random.uniform(a, b), 1) in tenths, base in tenths, a, b in
\* thousandths
RoundedFreq(base, a, b, k) ==
    RoundDiv(base * 100 * MaxLevel + UniformNum(a, b, k), 100 * MaxLevel)

\* record i: the tuple (round(uniform, 1), randint) is draws q+2(i-1), q+2(i-1)+1
\* of the list literal, the loop draws r+2(i-1) (frequency) and r+2(i-1)+1 (count)
LoyaltyByOccupation(q) ==
    LET r == q + 2 * Len(OccupationsBase)
    IN  [i \in 1..Len(OccupationsBase) |->
            LET o == OccupationsBase[i]
                avg_freq == RoundedFreq(0, o.flo, o.fhi, q + 2 * (i - 1))
                count == RandInt(o.lo, o.hi, q + 2 * (i - 1) + 1)
            IN  [occupation |-> o.occupation,
                 avg_frequency |-> RoundedFreq(avg_freq, -500, 500, r + 2 * (i - 1)),
                 count |-> generate_daily_data(count, 100, r + 2 * (i - 1) + 1)]]

\* index of the first element with the greatest avg_frequency
ArgMaxFreq(s) ==
    CHOOSE i \in 1..Len(s) :
        /\ \A j \in 1..Len(s) : s[j].avg_frequency <= s[i].avg_frequency
        /\ \A j \in 1..(i - 1) : s[j].avg_frequency < s[i].avg_frequency

LoySummary(total_passengers, segments, by_occ) ==
    LET high_loyalty == segments[1]      \* next(ls ... if 'High' in ls.segment)
        loyal_workers ==
            SumSeq([i \in 1..Len(by_occ) |->
                      IF by_occ[i].occupation \in {"Karyawan Swasta", "PNS/BUMN"}
                      THEN by_occ[i].count ELSE 0])
        most_loyal_occupation == by_occ[ArgMaxFreq(by_occ)]
    IN  [high_loyalty_count |-> high_loyalty.count,
         high_loyalty_percentage |-> high_loyalty.percentage,
         loyal_workers_count |-> loyal_workers,
         loyal_workers_percentage |-> Pct1(loyal_workers, total_passengers),
         most_loyal_occupation |-> most_loyal_occupation.occupation,
         most_loyal_occupation_avg_freq |-> most_loyal_occupation.avg_frequency]

\* the divisors of get_segmentasi_loyaltas are total_loyalty and
\* total_passengers
LoyDivisionsDefined(p) ==
    /\ SumSeq(TierCounts(p + 1)) # 0
    /\ RandInt(3500, 5000, p) # 0

LoyDraws == 1 + 2 * Len(LoyaltyTiers) + 4 * Len(OccupationsBase)

get_segmentasi_loyaltas(d, p) ==
    LET total_passengers == RandInt(3500, 5000, p)
        segments == LoyaltySegments(p + 1, total_passengers)
        by_occ == LoyaltyByOccupation(p + 1 + 2 * Len(LoyaltyTiers))
    IN  [date |-> TargetDate(d),
         total_passengers |-> total_passengers,
         loyalty_segments |-> segments,
         loyalty_by_occupation |-> by_occ,
         summary |-> LoySummary(total_passengers, segments, by_occ)]

(***************************************************************************)
(* Kategori Korelasi Behavior: get_behavior_correlation.  It makes         *)
(* BehDraws draws.                                                         *)
(***************************************************************************)
\* age_groups: (age, base_freq in tenths)
AgeGroups == <<[age |-> 22, base_freq |-> 65],
               [age |-> 28, base_freq |-> 72],
               [age |-> 35, base_freq |-> 85],
               [age |-> 45, base_freq |-> 90],
               [age |-> 55, base_freq |-> 70]>>

\* iteration i draws p+3(i-1) (randint), p+3(i-1)+1 (jitter), p+3(i-1)+2 (frequency)
AgeLoyaltyCorrelation(p) ==
    [i \in 1..Len(AgeGroups) |->
        LET k == p + 3 * (i - 1)
        IN  [age |-> AgeGroups[i].age,
             avg_loyalty_frequency |->
                 RoundedFreq(AgeGroups[i].base_freq, -1000, 1000, k + 2),
             count |-> generate_daily_data(RandInt(400, 800, k), 200, k + 1)]]

\* centre of pria_pct for an hour, in thousandths
PriaCentre(hour) == IF 6 <= hour /\ hour <= 11 THEN 550
                    ELSE IF 16 <= hour /\ hour <= 19 THEN 450
                    ELSE 500

\* mutant: the hourly base drawn with random.randint(0, 600)
HourTotal_m(q, i) ==
    LET k == q + 3 * (i - 1)
    IN  generate_daily_data(RandInt(0, 600, k), 150, k + 2)

\* total of hour record i (1-based): base is draw k, the jitter draw k + 2
HourTotal(q, i) ==
    LET k == q + 3 * (i - 1)
    IN  generate_daily_data(RandInt(50, 600, k), 150, k + 2)

\* pria_count = int(total * pria_pct), pria_pct = centre + uniform(-0.05, 0.05)
HourPriaCount(q, i) ==
    LET k == q + 3 * (i - 1)
        pria_pct == PriaCentre(Hours[i]) * MaxLevel + UniformNum(-50, 50, k + 1)
    IN  (HourTotal(q, i) * pria_pct) \div UniformDen

HourGenderDistribution(q) ==
    [i \in 1..Len(Hours) |->
        LET total == HourTotal(q, i)
            pria_count == HourPriaCount(q, i)
            wanita_count == total - pria_count
        IN  [hour |-> Hours[i],
             pria_count |-> pria_count,
             wanita_count |-> wanita_count,
             pria_percentage |-> Pct1(pria_count, total),
             wanita_percentage |-> Pct1(wanita_count, total)]]

\* occupation_zone_base: ratios in thousandths
OccupationZoneBase ==
    <<[occupation |-> "Karyawan Swasta", north_ratio |-> 520, west_ratio |-> 480],
      [occupation |-> "PNS/BUMN", north_ratio |-> 600, west_ratio |-> 400],
      [occupation |-> "Pelajar/Mahasiswa", north_ratio |-> 480, west_ratio |-> 520],
      [occupation |-> "Wiraswasta", north_ratio |-> 500, west_ratio |-> 500],
      [occupation |-> "Wisatawan", north_ratio |-> 350, west_ratio |-> 650]>>

\* total = generate_daily_data(random.randint(200, 1000), 0.2) of record i
ZoneTotal(q, i) ==
    generate_daily_data(RandInt(200, 1000, q + 2 * (i - 1)), 200, q + 2 * (i - 1) + 1)

\* north_count = int(total * north_ratio)
NorthCount(total, north_ratio) == (total * north_ratio) \div 1000

\* mutant: west_count = int(total * west_ratio)
WestCount_m(total, north_count, west_ratio) == (total * west_ratio) \div 1000

\* west_count = total - north_count
WestCount(total, north_count, west_ratio) == total - north_count

\* mutant: the threshold 0.55 replaced by 0.5
Preference_m(north_ratio, west_ratio) ==
    IF north_ratio > 500 THEN "North"
    ELSE IF west_ratio > 500 THEN "West"
    ELSE "Neutral"

\* the if / elif / else that sets pref
Preference(north_ratio, west_ratio) ==
    IF north_ratio > 550 THEN "North"
    ELSE IF west_ratio > 550 THEN "West"
    ELSE "Neutral"

OccupationZonePreference(q) ==
    [i \in 1..Len(OccupationZoneBase) |->
        LET o == OccupationZoneBase[i]
            total == ZoneTotal(q, i)
            north_count == NorthCount(total, o.north_ratio)
        IN  [occupation |-> o.occupation,
             north_count |-> north_count,
             west_count |-> WestCount(total, north_count, o.west_ratio),
             preference |-> Preference(o.north_ratio, o.west_ratio)]]

\* sum(item.avg_loyalty_frequency * item.count for item in items[lo..hi])
WeightedFreq(items, lo, hi) ==
    SumSeq([i \in 1..(hi - lo + 1) |->
              items[lo + i - 1].avg_loyalty_frequency * items[lo + i - 1].count])

CountSum(items, lo, hi) ==
    SumSeq([i \in 1..(hi - lo + 1) |-> items[lo + i - 1].count])

\* mutant: the group average shifted by a fresh draw of the generator
GroupAvg_m(items, lo, hi) ==
    IF CountSum(items, lo, hi) > 0
    THEN <<WeightedFreq(items, lo, hi) + Lvl(pos) * CountSum(items, lo, hi),
           CountSum(items, lo, hi)>>
    ELSE <<0, 1>>

\* young_avg, senior_avg as fractions <<numerator, denominator>> in tenths:
\* sum / count if count > 0 else 0
GroupAvg(items, lo, hi) ==
    IF CountSum(items, lo, hi) > 0
    THEN <<WeightedFreq(items, lo, hi), CountSum(items, lo, hi)>>
    ELSE <<0, 1>>

\* hour_gender_distribution[1] and hour_gender_distribution[14], 0-based
MorningIndex == 1
EveningIndex == 14

\* young_avg over age_loyalty_correlation[:2]
YoungAvg(ages) == GroupAvg(ages, 1, 2)

\* mutant: senior_avg over age_loyalty_correlation[2:]
SeniorAvg_m(ages) == GroupAvg(ages, 3, Len(ages))

\* senior_avg over age_loyalty_correlation[3:]
SeniorAvg(ages) == GroupAvg(ages, 4, Len(ages))

BehSummary(ages, hours, prefs) ==
    LET young_avg == YoungAvg(ages)
        senior_avg == SeniorAvg(ages)
    IN  [age_loyalty_insight |->
             IF senior_avg[1] * young_avg[2] > young_avg[1] * senior_avg[2]
             THEN "Positif" ELSE "Negatif/Netral",
         young_avg_loyalty |-> RoundDiv(young_avg[1], young_avg[2]),
         senior_avg_loyalty |-> RoundDiv(senior_avg[1], senior_avg[2]),
         dominant_gender_morning |->
             IF hours[MorningIndex + 1].pria_percentage > 500 THEN "Pria" ELSE "Wanita",
         dominant_gender_evening |->
             IF hours[EveningIndex + 1].pria_percentage > 500 THEN "Pria" ELSE "Wanita",
         strong_zone_preference_count |->
             Cardinality({i \in 1..Len(prefs) : prefs[i].preference # "Neutral"})]

\* the unguarded divisors of get_behavior_correlation are the hourly totals;
\* the divisions of the summary are guarded by `if ... > 0 else 0`
BehDivisionsDefined(p) ==
    \A i \in 1..Len(Hours) : HourTotal(p + 3 * Len(AgeGroups), i) # 0

BehDraws == 3 * Len(AgeGroups) + 3 * Len(Hours) + 2 * Len(OccupationZoneBase)

get_behavior_correlation(d, p) ==
    LET ages == AgeLoyaltyCorrelation(p)
        q1 == p + 3 * Len(AgeGroups)
        hours == HourGenderDistribution(q1)
        q2 == q1 + 3 * Len(Hours)
        prefs == OccupationZonePreference(q2)
    IN  [date |-> TargetDate(d),
         age_loyalty_correlation |-> ages,
         hour_gender_distribution |-> hours,
         occupation_zone_preference |-> prefs,
         summary |-> BehSummary(ages, hours, prefs)]

\* locals of get_behavior_correlation that its response does not carry: the
\* jittered total of every zone-preference record and of every hourly record
BehLocals(p) ==
    LET q1 == p + 3 * Len(AgeGroups)
        q2 == q1 + 3 * Len(Hours)
    IN  [zone_totals |-> [i \in 1..Len(OccupationZoneBase) |-> ZoneTotal(q2, i)],
         hour_totals |-> [i \in 1..Len(Hours) |-> HourTotal(q1, i)]]

(***************************************************************************)
(* get_all_data: the key-renaming transforms.  Every renamed field and     *)
(* every computed label is kept; of a narrative f-string only the values   *)
(* it interpolates that no other field carries are kept, and the fixed     *)
(* recommendation lists are left out.                                      *)
(***************************************************************************)
SeqMax(s) == CHOOSE x \in {s[i] : i \in 1..Len(s)} : \A i \in 1..Len(s) : s[i] <= x
SeqMin(s) == CHOOSE x \in {s[i] : i \in 1..Len(s)} : \A i \in 1..Len(s) : x <= s[i]

transform_ops_eff_keys(data) ==
    LET morning_pct == data.summary.morning_peak_percentage
        evening_pct == data.summary.evening_peak_percentage
        gate_utils == [g \in 1..Len(data.gate_utilization) |->
                          data.gate_utilization[g].utilization_rate]
        selisih_util == SeqMax(gate_utils) - SeqMin(gate_utils)
        total_peak == morning_pct + evening_pct
    IN  [tanggal |-> data.date,
         total_transaksi |-> data.total_transactions,
         trafik_per_jam |->
             [i \in 1..Len(data.traffic_per_hour) |->
                 [jam |-> data.traffic_per_hour[i].hour,
                  jumlah |-> data.traffic_per_hour[i].count,
                  periode |-> data.traffic_per_hour[i].period]],
         penggunaan_gate |->
             [i \in 1..Len(data.gate_utilization) |->
                 [gate_id |-> data.gate_utilization[i].gate_id,
                  zona |-> data.gate_utilization[i].zone,
                  jumlah |-> data.gate_utilization[i].count,
                  tingkat_utilisasi |-> data.gate_utilization[i].utilization_rate]],
         trafik_per_zona |->
             [i \in 1..Len(data.traffic_by_zone) |->
                 [zona |-> data.traffic_by_zone[i].zone,
                  jumlah |-> data.traffic_by_zone[i].count,
                  persentase |-> data.traffic_by_zone[i].percentage]],
         keseimbangan_arah |->
             [i \in 1..Len(data.balance_direction) |->
                 [zona |-> data.balance_direction[i].zone,
                  arah |-> data.balance_direction[i].direction,
                  jumlah |-> data.balance_direction[i].count,
                  persentase |-> data.balance_direction[i].percentage]],
         ringkasan |->
             [transaksi_pagi |-> data.summary.morning_peak_transactions,
              persentase_pagi |-> data.summary.morning_peak_percentage,
              transaksi_sore |-> data.summary.evening_peak_transactions,
              persentase_sore |-> data.summary.evening_peak_percentage,
              rata_utilisasi_gate |-> data.summary.avg_gate_utilization_rate,
              gate_tertersibuk |-> data.summary.busiest_gate,
              zona_tertersibuk |-> data.summary.busiest_zone],
         insight_ai |->
             [pola_trafik |-> IF morning_pct > 350 THEN "morning_peak"
                              ELSE IF evening_pct > 350 THEN "evening_peak"
                              ELSE "neutral",
              intensitas_peak |-> IF total_peak > 650 THEN "sangat_tinggi"
                                  ELSE IF total_peak > 500 THEN "tinggi"
                                  ELSE "sedang",
              keseimbangan_gate |-> IF selisih_util > 1500 THEN "tidak_seimbang"
                                    ELSE "seimbang"]]

\* indices of the three elements with the greatest counts, in the order of
\* sorted(s, key=count, reverse=True)[:3] (a stable sort)
TopThree(s) ==
    LET Before(i, j) == s[i].count > s[j].count \/ (s[i].count = s[j].count /\ i < j)
        Rank(i) == Cardinality({j \in 1..Len(s) : Before(j, i)})
    IN  [r \in 1..3 |-> CHOOSE i \in 1..Len(s) : Rank(i) = r - 1]

transform_demog_keys(data) ==
    LET pria_pct == data.gender_distribution[1].percentage
        wanita_pct == data.gender_distribution[2].percentage
        diff == IF pria_pct >= wanita_pct THEN pria_pct - wanita_pct
                ELSE wanita_pct - pria_pct
        top == TopThree(data.origin_station_distribution)
    IN  [tanggal |-> data.date,
         total_penumpang |-> data.total_passengers,
         distribusi_usia |->
             [i \in 1..Len(data.age_distribution) |->
                 [rentang_usia |-> data.age_distribution[i].age_range,
                  jumlah |-> data.age_distribution[i].count,
                  persentase |-> data.age_distribution[i].percentage]],
         distribusi_pekerjaan |->
             [i \in 1..Len(data.occupation_distribution) |->
                 [pekerjaan |-> data.occupation_distribution[i].occupation,
                  jumlah |-> data.occupation_distribution[i].count,
                  persentase |-> data.occupation_distribution[i].percentage]],
         distribusi_gender |->
             [i \in 1..Len(data.gender_distribution) |->
                 [gender |-> data.gender_distribution[i].gender,
                  jumlah |-> data.gender_distribution[i].count,
                  persentase |-> data.gender_distribution[i].percentage]],
         distribusi_stasiun_asal |->
             [i \in 1..Len(data.origin_station_distribution) |->
                 [stasiun |-> data.origin_station_distribution[i].station,
                  jumlah |-> data.origin_station_distribution[i].count,
                  persentase |-> data.origin_station_distribution[i].percentage]],
         ringkasan |->
             [rata_usia |-> data.summary.average_age,
              penumpang_usia_produktif |-> data.summary.productive_age_passengers,
              persentase_usia_produktif |-> data.summary.productive_age_percentage,
              penumpang_pekerja |-> data.summary.worker_passengers,
              persentase_pekerja |-> data.summary.worker_percentage,
              stasiun_asal_dominan |-> data.summary.dominant_origin_station],
         insight_ai |->
             \* rasio_demografi: the rasio_gender label its text starts with;
             \* stasiun_prioritas: the three names it joins
             [rasio_demografi |-> IF diff < 100 THEN "Seimbang"
                                  ELSE IF pria_pct > wanita_pct THEN "Pria Dominan"
                                  ELSE "Wanita Dominan",
              stasiun_prioritas |->
                  [r \in 1..3 |-> data.origin_station_distribution[top[r]].station]]]

transform_seg_perj_keys(data) ==
    LET in_pct == data.direction_distribution[1].percentage
        out_pct == data.direction_distribution[2].percentage
    IN  [tanggal |-> data.date,
         total_transaksi |-> data.total_transactions,
         distribusi_stasiun_awal |->
             [i \in 1..Len(data.origin_distribution) |->
                 [stasiun |-> data.origin_distribution[i].station,
                  jumlah |-> data.origin_distribution[i].count,
                  persentase |-> data.origin_distribution[i].percentage]],
         distribusi_arah |->
             [i \in 1..Len(data.direction_distribution) |->
                 [arah |-> data.direction_distribution[i].direction,
                  jumlah |-> data.direction_distribution[i].count,
                  persentase |-> data.direction_distribution[i].percentage]],
         distribusi_waktu_perjalanan |->
             [i \in 1..Len(data.time_travel_distribution) |->
                 [segmen_waktu |-> data.time_travel_distribution[i].time_segment,
                  jumlah |-> data.time_travel_distribution[i].count,
                  persentase |-> data.time_travel_distribution[i].percentage]],
         ringkasan |->
             [stasiun_asal_terbanyak |-> data.summary.top_origin_station,
              jumlah_stasiun_asal |-> data.summary.top_origin_count,
              persentase_stasiun_asal |-> data.summary.top_origin_percentage,
              arah_dominan |-> data.summary.dominant_direction,
              segmen_waktu_dominan |-> data.summary.dominant_time_segment,
              persentase_waktu_dominan |-> data.summary.dominant_time_percentage],
         insight_ai |->
             [tipe_penumpang |-> IF in_pct > 400 /\ out_pct > 400
                                 THEN "Komuter harian (2-way)"
                                 ELSE "Pengguna sekali jalan"]]

transform_seg_loy_keys(data) ==
    LET high_seg == data.loyalty_segments[1]    \* next(s ... if "High" in segment)
        med_seg == data.loyalty_segments[2]     \* next(s ... if "Medium" in segment)
        low_seg == data.loyalty_segments[3]     \* next(s ... if "Low" in segment)
        high_loy == high_seg.percentage
        total_penumpang == data.total_passengers
    IN  [tanggal |-> data.date,
         total_penumpang |-> data.total_passengers,
         segmentasi_loyal |->
             [i \in 1..Len(data.loyalty_segments) |->
                 [segmen |-> data.loyalty_segments[i].segment,
                  jumlah |-> data.loyalty_segments[i].count,
                  persentase |-> data.loyalty_segments[i].percentage,
                  frekuensi_min |-> data.loyalty_segments[i].min_freq,
                  frekuensi_max |-> data.loyalty_segments[i].max_freq]],
         loyal_berdasarkan_pekerjaan |->
             [i \in 1..Len(data.loyalty_by_occupation) |->
                 [pekerjaan |-> data.loyalty_by_occupation[i].occupation,
                  jumlah_penumpang |-> data.loyalty_by_occupation[i].count,
                  rata_frekuensi |-> data.loyalty_by_occupation[i].avg_frequency,
                  persentase_dari_total |->
                      Pct1(data.loyalty_by_occupation[i].count, total_penumpang)]],
         ringkasan |->
             [persentase_loyal_tinggi |-> high_loy,
              persentase_loyal_sedang |-> med_seg.percentage,
              persentase_loyal_rendah |-> low_seg.percentage,
              jumlah_loyal_tinggi |-> high_seg.count,
              jumlah_loyal_sedang |-> med_seg.count,
              jumlah_loyal_rendah |-> low_seg.count,
              pekerjaan_paling_loyal |-> data.summary.most_loyal_occupation,
              frekuensi_loyal_tertinggi |-> data.summary.most_loyal_occupation_avg_freq],
         insight_ai |->
             [strategi_loyal |-> IF high_loy > 400 THEN "Fokus retensi penumpang high loyalty"
                                 ELSE IF high_loy > 300 THEN "Kombinasi retensi & akuisisi"
                                 ELSE "Fokus akuisisi & upgrade"]]

\* korelasi_usia of transform_beh_corr_keys: unweighted means of the
\* frequencies of the ages < 30 and of the ages >= 45, compared exactly
KorelasiUsia(age_data) ==
    LET young == {i \in 1..Len(age_data) : age_data[i].age < 30}
        senior == {i \in 1..Len(age_data) : age_data[i].age >= 45}
        FreqSum(S) == SumSeq([i \in 1..Len(age_data) |->
                        IF i \in S THEN age_data[i].avg_loyalty_frequency ELSE 0])
        \* senior_avg - young_avg over the denominator |senior| * |young|, in tenths
        num == FreqSum(senior) * Cardinality(young) - FreqSum(young) * Cardinality(senior)
        den == Cardinality(senior) * Cardinality(young)
    IN  IF num > 0 THEN "Positif"
        ELSE IF 10 * (0 - num) > 5 * den THEN "Negatif"
        ELSE "Netral"

transform_beh_corr_keys(data) ==
    LET hour_gender == data.hour_gender_distribution
        InBand(lo, hi) == {i \in 1..Len(hour_gender) :
                              lo <= hour_gender[i].hour /\ hour_gender[i].hour <= hi}
        Pria(S) == SumSeq([i \in 1..Len(hour_gender) |->
                      IF i \in S THEN hour_gender[i].pria_count ELSE 0])
        Wanita(S) == SumSeq([i \in 1..Len(hour_gender) |->
                      IF i \in S THEN hour_gender[i].wanita_count ELSE 0])
        morning_hours == InBand(6, 11)
        evening_hours == InBand(16, 19)
    IN  [tanggal |-> data.date,
         korelasi_usia_loyal |->
             [i \in 1..Len(data.age_loyalty_correlation) |->
                 [usia |-> data.age_loyalty_correlation[i].age,
                  rata_loyal |-> data.age_loyalty_correlation[i].avg_loyalty_frequency,
                  jumlah |-> data.age_loyalty_correlation[i].count]],
         distribusi_gender_per_jam |->
             [i \in 1..Len(hour_gender) |->
                 [jam |-> hour_gender[i].hour,
                  jumlah_pria |-> hour_gender[i].pria_count,
                  jumlah_wanita |-> hour_gender[i].wanita_count,
                  persentase_pria |-> hour_gender[i].pria_percentage,
                  persentase_wanita |-> hour_gender[i].wanita_percentage]],
         preferensi_zona_pekerjaan |->
             [i \in 1..Len(data.occupation_zone_preference) |->
                 [pekerjaan |-> data.occupation_zone_preference[i].occupation,
                  jumlah_utara |-> data.occupation_zone_preference[i].north_count,
                  jumlah_barat |-> data.occupation_zone_preference[i].west_count,
                  preferensi |-> data.occupation_zone_preference[i].preference]],
         ringkasan |->
             [insight_korelasi_usia_loyal |-> data.summary.age_loyalty_insight,
              rata_loyal_muda |-> data.summary.young_avg_loyalty,
              rata_loyal_senior |-> data.summary.senior_avg_loyalty,
              gender_dominan_pagi |-> data.summary.dominant_gender_morning,
              gender_dominan_sore |-> data.summary.dominant_gender_evening,
              jumlah_preferensi_zona_kuat |-> data.summary.strong_zone_preference_count],
         insight_ai |->
             \* pola_gender_waktu: the two labels its text interpolates
             \* (morning_gender_dom, evening_gender_dom); analisis_zona.pola:
             \* the number its text interpolates (jumlah_preferensi_kuat)
             [korelasi_usia |-> KorelasiUsia(data.age_loyalty_correlation),
              pola_gender_waktu |->
                  <<IF Pria(morning_hours) > Wanita(morning_hours)
                    THEN "Pria" ELSE "Wanita",
                    IF Wanita(evening_hours) > Pria(evening_hours)
                    THEN "Wanita" ELSE "Pria">>,
              analisis_zona |->
                  [pola |-> Cardinality({i \in 1..Len(data.occupation_zone_preference) :
                      data.occupation_zone_preference[i].preference # "Neutral"})]]]

\* mutant: total_transaksi picked from the trip segmentation report
DashboardSummary_m(ops_eff_indo, demog_indo, seg_perj_indo, seg_loy_indo) ==
    [total_transaksi |-> seg_perj_indo.total_transaksi,
     total_penumpang_unik |-> demog_indo.total_penumpang,
     high_loyalty_penumpang |-> seg_loy_indo.ringkasan.persentase_loyal_tinggi,
     gate_tersibuk |-> StripTap(ops_eff_indo.ringkasan.gate_tertersibuk),
     gate_id_full |-> ops_eff_indo.ringkasan.gate_tertersibuk,
     morning_peak_traffic |-> ops_eff_indo.ringkasan.persentase_pagi,
     evening_peak_traffic |-> ops_eff_indo.ringkasan.persentase_sore,
     rata_rata_usia |-> demog_indo.ringkasan.rata_usia,
     stasiun_asal_dominan |-> seg_perj_indo.ringkasan.stasiun_asal_terbanyak,
     stasiun_asal_persentase |-> seg_perj_indo.ringkasan.persentase_stasiun_asal]

\* dashboard_summary of get_all_data: the values it picks (labels left out)
DashboardSummary(ops_eff_indo, demog_indo, seg_perj_indo, seg_loy_indo) ==
    [total_transaksi |-> ops_eff_indo.total_transaksi,
     total_penumpang_unik |-> demog_indo.total_penumpang,
     high_loyalty_penumpang |-> seg_loy_indo.ringkasan.persentase_loyal_tinggi,
     gate_tersibuk |-> StripTap(ops_eff_indo.ringkasan.gate_tertersibuk),
     gate_id_full |-> ops_eff_indo.ringkasan.gate_tertersibuk,
     morning_peak_traffic |-> ops_eff_indo.ringkasan.persentase_pagi,
     evening_peak_traffic |-> ops_eff_indo.ringkasan.persentase_sore,
     rata_rata_usia |-> demog_indo.ringkasan.rata_usia,
     stasiun_asal_dominan |-> seg_perj_indo.ringkasan.stasiun_asal_terbanyak,
     stasiun_asal_persentase |-> seg_perj_indo.ringkasan.persentase_stasiun_asal]

\* the dict get_all_data returns, from its local target_date and the five
\* responses it awaited
Composite(target_date, ops_eff, demog_raw, seg_perj, seg_loy, beh_corr) ==
    LET ops_eff_indo == transform_ops_eff_keys(ops_eff)
        demog_indo == transform_demog_keys(demog_raw)
        seg_perj_indo == transform_seg_perj_keys(seg_perj)
        seg_loy_indo == transform_seg_loy_keys(seg_loy)
        beh_corr_indo == transform_beh_corr_keys(beh_corr)
    IN  [tanggal |-> target_date,
         dashboard_summary |->
             DashboardSummary(ops_eff_indo, demog_indo, seg_perj_indo, seg_loy_indo),
         data |-> [efisiensi_operasional |-> ops_eff_indo,
                   demografi |-> demog_indo,
                   segmentasi_perjalanan |-> seg_perj_indo,
                   segmentasi_loyaltas |-> seg_loy_indo,
                   korelasi_perilaku |-> beh_corr_indo]]

(***************************************************************************)
(* The state machine: one request is served.  A generator called by        *)
(* get_all_data receives its resolved target_date, a generator called as   *)
(* an endpoint receives the request's date parameter.                      *)
(***************************************************************************)
Generators == <<"ops", "demog", "perj", "loy", "beh">>
Endpoints == {Generators[i] : i \in 1..Len(Generators)} \cup {"all"}

\* a task slot of the event loop that holds no request
NoTask == [state |-> "none"]

\* the process has started and no request has arrived
Started ==
    /\ pos = 0
    /\ now = 0
    /\ pc = "idle"
    /\ call = "none"
    /\ date = NoDate
    /\ all_date = NoDate
    /\ ops = NoReport
    /\ demog = NoReport
    /\ perj = NoReport
    /\ loy = NoReport
    /\ beh = NoReport
    /\ beh_locals = NoReport
    /\ resp = NoReport
    /\ tasks = [t \in 1..MaxTasks |-> NoTask]
    /\ running = 0
    /\ drawlog = <<>>

Init == tape \in Tapes /\ Started

\* mutant: get_all_data passes its own date parameter on, not target_date
DateArg_m == date

\* the date argument the running generator was called with
DateArg == IF call = "all" THEN all_date ELSE date

\* where control goes when generator number g returns
After(g) == IF call # "all" THEN "done"
            ELSE IF g < Len(Generators) THEN Generators[g + 1]
            ELSE "compose"

\* a division raises ZeroDivisionError: the generator returns no report, the
\* exception leaves the endpoint (get_all_data catches nothing) and the
\* request fails, after some of the generator's draws
Raise(report, report_next, draws) ==
    /\ report_next = report
    /\ pos' \in pos..(pos + draws)
    /\ pc' = "failed"

\* a request arrives at endpoint e with date parameter d
Request(e, d) ==
    /\ pc = "idle"
    /\ call' = e
    /\ date' = d
    /\ pc' = e
    /\ UNCHANGED <<tape, pos, now, all_date, ops, demog, perj, loy, beh, beh_locals, resp>>
    /\ UNCHANGED loopvars

\* midnight passes
Tick ==
    /\ now < MaxDay
    /\ now' = now + 1
    /\ UNCHANGED <<tape, pos, pc, call, date, all_date, ops, demog, perj, loy, beh,
                   beh_locals, resp>>
    /\ UNCHANGED loopvars

\* get_all_data: target_date = date or get_date()
AllResolveDate ==
    /\ pc = "all"
    /\ all_date' = TargetDate(date)
    /\ pc' = Generators[1]
    /\ UNCHANGED <<tape, pos, now, call, date, ops, demog, perj, loy, beh, beh_locals, resp>>
    /\ UNCHANGED loopvars

RunOps ==
    /\ pc = "ops"
    /\ IF OpsDivisionsDefined(pos)
       THEN /\ ops' = get_operational_efficiency(DateArg, pos)
            /\ pos' = pos + OpsDraws
            /\ pc' = After(1)
       ELSE Raise(ops, ops', OpsDraws)
    /\ UNCHANGED <<tape, now, call, date, all_date, demog, perj, loy, beh, beh_locals, resp>>
    /\ UNCHANGED loopvars

RunDemog ==
    /\ pc = "demog"
    /\ IF DemogDivisionsDefined(pos)
       THEN /\ demog' = get_demografi(DateArg, pos)
            /\ pos' = pos + DemogDraws
            /\ pc' = After(2)
       ELSE Raise(demog, demog', DemogDraws)
    /\ UNCHANGED <<tape, now, call, date, all_date, ops, perj, loy, beh, beh_locals, resp>>
    /\ UNCHANGED loopvars

RunPerj ==
    /\ pc = "perj"
    /\ IF PerjDivisionsDefined(pos)
       THEN /\ perj' = get_segmentasi_perjalanan(DateArg, pos)
            /\ pos' = pos + PerjDraws
            /\ pc' = After(3)
       ELSE Raise(perj, perj', PerjDraws)
    /\ UNCHANGED <<tape, now, call, date, all_date, ops, demog, loy, beh, beh_locals, resp>>
    /\ UNCHANGED loopvars

RunLoy ==
    /\ pc = "loy"
    /\ IF LoyDivisionsDefined(pos)
       THEN /\ loy' = get_segmentasi_loyaltas(DateArg, pos)
            /\ pos' = pos + LoyDraws
            /\ pc' = After(4)
       ELSE Raise(loy, loy', LoyDraws)
    /\ UNCHANGED <<tape, now, call, date, all_date, ops, demog, perj, beh, beh_locals, resp>>
    /\ UNCHANGED loopvars

RunBeh ==
    /\ pc = "beh"
    /\ IF BehDivisionsDefined(pos)
       THEN /\ beh' = get_behavior_correlation(DateArg, pos)
            /\ beh_locals' = BehLocals(pos)
            /\ pos' = pos + BehDraws
            /\ pc' = After(5)
       ELSE Raise(beh, beh', BehDraws) /\ UNCHANGED beh_locals
    /\ UNCHANGED <<tape, now, call, date, all_date, ops, demog, perj, loy, resp>>
    /\ UNCHANGED loopvars

\* get_all_data after its five awaits: transform, dashboard, return
Compose ==
    /\ pc = "compose"
    /\ resp' = Composite(all_date, ops, demog, perj, loy, beh)
    /\ pc' = "done"
    /\ UNCHANGED <<tape, pos, now, call, date, all_date, ops, demog, perj, loy, beh,
                   beh_locals>>
    /\ UNCHANGED loopvars

Next ==
    \/ \E e \in Endpoints, d \in DateParams : Request(e, d)
    \/ Tick
    \/ AllResolveDate
    \/ RunOps
    \/ RunDemog
    \/ RunPerj
    \/ RunLoy
    \/ RunBeh
    \/ Compose

Spec == Init /\ [][Next]_vars

(***************************************************************************)
(* The event loop.  Every endpoint is an `async def`: a request is a task  *)
(* of the one event loop thread, and a task keeps the thread until it      *)
(* suspends or returns.  Of a task the loop specification keeps what it    *)
(* does to the process-wide generator: which draws it makes, and when.     *)
(***************************************************************************)
DrawsOf == <<OpsDraws, DemogDraws, PerjDraws, LoyDraws, BehDraws>>

\* the generators a request to endpoint e runs, as indices of Generators
FirstGen(e) == IF e = "all" THEN 1 ELSE CHOOSE g \in 1..Len(Generators) : Generators[g] = e
LastGen(e) == IF e = "all" THEN Len(Generators) ELSE FirstGen(e)

\* mutant: every await hands the thread back to the loop
Yields_m(g) == TRUE

\* `await get_...(target_date)` of generator g: the awaited coroutine contains
\* no await itself, so it runs to its return and the await never suspends
Yields(g) == FALSE

\* a request for endpoint e arrives: its task is created and waits for the loop
LoopArrive(t, e) ==
    /\ tasks[t] = NoTask
    /\ tasks' = [tasks EXCEPT ![t] = [state |-> "ready", call |-> e,
                                      next |-> FirstGen(e),
                                      arrived |-> Len(drawlog)]]
    /\ UNCHANGED <<tape, pos, running, drawlog>>
    /\ UNCHANGED reqvars

\* the loop is idle and gives the thread to a task that waits
LoopSchedule(t) ==
    /\ running = 0
    /\ tasks[t].state \in {"ready", "suspended"}
    /\ running' = t
    /\ tasks' = [tasks EXCEPT ![t].state = "running"]
    /\ UNCHANGED <<tape, pos, drawlog>>
    /\ UNCHANGED reqvars

\* the running task calls its next generator, which makes all its draws
LoopGenerator(t) ==
    /\ running = t
    /\ tasks[t].next <= LastGen(tasks[t].call)
    /\ LET g == tasks[t].next
       IN  /\ drawlog' = Append(drawlog, [task |-> t, gen |-> Generators[g],
                                          first |-> pos,
                                          last |-> pos + DrawsOf[g] - 1])
           /\ pos' = pos + DrawsOf[g]
           /\ IF Yields(g)
              THEN /\ tasks' = [tasks EXCEPT ![t].next = g + 1,
                                             ![t].state = "suspended"]
                   /\ running' = 0
              ELSE /\ tasks' = [tasks EXCEPT ![t].next = g + 1]
                   /\ running' = t
    /\ UNCHANGED tape
    /\ UNCHANGED reqvars

\* the running task has run its generators: it returns its response
LoopReturn(t) ==
    /\ running = t
    /\ tasks[t].next > LastGen(tasks[t].call)
    /\ tasks' = [tasks EXCEPT ![t].state = "done"]
    /\ running' = 0
    /\ UNCHANGED <<tape, pos, drawlog>>
    /\ UNCHANGED reqvars

NextLoop ==
    \/ \E t \in 1..MaxTasks, e \in Endpoints : LoopArrive(t, e)
    \/ \E t \in 1..MaxTasks : LoopSchedule(t)
    \/ \E t \in 1..MaxTasks : LoopGenerator(t)
    \/ \E t \in 1..MaxTasks : LoopReturn(t)

\* the loop specification reads no draw: one tape stands for all
InitLoop == Init /\ tape = <<0>>

SpecLoop == InitLoop /\ [][NextLoop]_vars

(***************************************************************************)
(* The behaviour-correlation endpoint over tapes of period 15, the draws   *)
(* of the age loop: each age bucket has a level of its own for its         *)
(* frequency draw and an end of the range of its own for its two count     *)
(* draws.                                                                  *)
(***************************************************************************)
AgeTapes ==
    {[k \in 1..(3 * Len(AgeGroups)) |->
         IF (k - 1) % 3 = 2 THEN f[((k - 1) \div 3) + 1] ELSE c[((k - 1) \div 3) + 1]] :
       f \in [1..Len(AgeGroups) -> Levels], c \in [1..Len(AgeGroups) -> {0, MaxLevel}]}

InitBeh == tape \in AgeTapes /\ Started

NextBeh ==
    \/ \E d \in {NoDate} : Request("beh", d)
    \/ RunBeh

SpecBeh == InitBeh /\ [][NextBeh]_vars

(***************************************************************************)
(* The demographics endpoint over tapes of period 5: the total (draw 0),   *)
(* the bases of the first two occupations (draws 11, 12) and their jitters *)
(* (draws 16, 17) fall on three different places of the tape.              *)
(***************************************************************************)

DemogTapes == [1..DemogPeriod -> Levels]

InitDemog == tape \in DemogTapes /\ Started

NextDemog ==
    \/ \E d \in {NoDate} : Request("demog", d)
    \/ RunDemog

SpecDemog == InitDemog /\ [][NextDemog]_vars

(***************************************************************************)
(* The operational-efficiency endpoint over tapes of period 4: the two     *)
(* draws of an hour at an even place of the loop and the two draws of an   *)
(* hour at an odd place fall on different places of the tape.              *)
(***************************************************************************)
OpsTapes == [1..OpsPeriod -> Levels]

InitOps == tape \in OpsTapes /\ Started

NextOps ==
    \/ \E d \in {NoDate} : Request("ops", d)
    \/ RunOps

SpecOps == InitOps /\ [][NextOps]_vars

(***************************************************************************)
(* The aggregate endpoint over the tapes of the behaviour specification,   *)
(* turned so that the age loop of get_behavior_correlation, which          *)
(* get_all_data reaches after the draws of the four generators before it,  *)
(* meets the same levels as it does when called alone.                     *)
(***************************************************************************)
BehOffset == OpsDraws + DemogDraws + PerjDraws + LoyDraws

AllAgeTapes ==
    {[j \in 1..(3 * Len(AgeGroups)) |->
         t[((j - 1 + (3 * Len(AgeGroups) - 1) * BehOffset) % (3 * Len(AgeGroups))) + 1]] :
       t \in AgeTapes}

InitAll == tape \in AllAgeTapes /\ Started

NextAll ==
    \/ \E d \in {NoDate} : Request("all", d)
    \/ AllResolveDate
    \/ RunOps
    \/ RunDemog
    \/ RunPerj
    \/ RunLoy
    \/ RunBeh
    \/ Compose

SpecAll == InitAll /\ [][NextAll]_vars

(***************************************************************************)
(* Properties.                                                             *)
(***************************************************************************)
\* the records of s that satisfy nothing but a position test: indices of s
Idx(s) == 1..Len(s)

\* sum of f over the index set S of a sequence of length n
SumOver(f, S, n) == SumSeq([i \in 1..n |-> IF i \in S THEN f[i] ELSE 0])

Counts(s) == [i \in 1..Len(s) |-> s[i].count]

\* the count of the balance record of a zone (name without TAP-) and direction
BalanceOf(report, zone_name, direction) ==
    SumOver(Counts(report.balance_direction),
            {b \in Idx(report.balance_direction) :
                /\ report.balance_direction[b].zone = zone_name
                /\ report.balance_direction[b].direction = direction},
            Len(report.balance_direction))

\* C1: in every Operational Efficiency report, for each zone, the count of the
\* zone's IN balance record plus the count of its OUT balance record equals
\* the zone's count in traffic_by_zone.
C1_BalanceSumsToZone ==
    ops # NoReport =>
        \A z \in Idx(ops.traffic_by_zone) :
            BalanceOf(ops, StripTap(ops.traffic_by_zone[z].zone), "IN")
              + BalanceOf(ops, StripTap(ops.traffic_by_zone[z].zone), "OUT")
            = ops.traffic_by_zone[z].count

\* the gates of a zone, by the zone field of the gate records
GatesOf(report, zone) ==
    {g \in Idx(report.gate_utilization) : report.gate_utilization[g].zone = zone}

\* C2: in every Operational Efficiency report, the count of the North zone
\* record is the sum of the counts of the four gate records whose zone is
\* North, and the count of the West zone record is the sum of the counts of
\* the four gate records whose zone is West.
C2_ZoneIsSumOfGates ==
    ops # NoReport =>
        /\ Len(ops.traffic_by_zone) = 2
        /\ ops.traffic_by_zone[1].zone = "TAP-NORTH"
        /\ ops.traffic_by_zone[2].zone = "TAP-WEST"
        /\ Cardinality(GatesOf(ops, "North")) = 4
        /\ Cardinality(GatesOf(ops, "West")) = 4
        /\ ops.traffic_by_zone[1].count
             = SumOver(Counts(ops.gate_utilization), GatesOf(ops, "North"),
                       Len(ops.gate_utilization))
        /\ ops.traffic_by_zone[2].count
             = SumOver(Counts(ops.gate_utilization), GatesOf(ops, "West"),
                       Len(ops.gate_utilization))

\* a report whose two zone counts differ, so that a zone count built from the
\* gates of the other zone would show
C2_Witness ==
    /\ ops # NoReport
    /\ ops.traffic_by_zone[1].count # ops.traffic_by_zone[2].count
    /\ \E g, h \in GatesOf(ops, "West") :
          ops.gate_utilization[g].count # ops.gate_utilization[h].count

\* C3: in every Demographics report, the Pria count plus the Wanita count
\* equals total_passengers.
C3_GenderPartition ==
    demog # NoReport =>
        /\ Len(demog.gender_distribution) = 2
        /\ demog.gender_distribution[1].gender = "Pria"
        /\ demog.gender_distribution[2].gender = "Wanita"
        /\ demog.gender_distribution[1].count + demog.gender_distribution[2].count
             = demog.total_passengers

\* a report at the lowest total whose male count was jittered upward
C3_Witness ==
    /\ demog # NoReport
    /\ demog.total_passengers = 3500
    /\ demog.gender_distribution[1].count > (demog.total_passengers * 520) \div 1000

\* C4: in every Trip Segmentation report, the IN count plus the OUT count
\* equals total_transactions.
C4_DirectionPartition ==
    perj # NoReport =>
        /\ Len(perj.direction_distribution) = 2
        /\ perj.direction_distribution[1].direction = "IN"
        /\ perj.direction_distribution[2].direction = "OUT"
        /\ perj.direction_distribution[1].count + perj.direction_distribution[2].count
             = perj.total_transactions

\* a report at the highest total whose IN count was jittered downward
C4_Witness ==
    /\ perj # NoReport
    /\ perj.total_transactions = 6000
    /\ perj.direction_distribution[1].count < (perj.total_transactions * 510) \div 1000

C6_PreferenceFromRatios ==
    beh # NoReport =>
        /\ \A i \in Idx(beh.occupation_zone_preference) :
              LET r == beh.occupation_zone_preference[i]
                  o == OccupationZoneBase[i]
              IN  /\ (r.preference = "North") <=> (o.north_ratio > 550)
                  /\ (r.preference = "West") <=> (o.west_ratio > 550)
                  /\ (r.preference = "Neutral")
                        <=> ~(o.north_ratio > 550) /\ ~(o.west_ratio > 550)
        /\ [i \in Idx(beh.occupation_zone_preference) |->
               beh.occupation_zone_preference[i].preference]
             = <<"Neutral", "North", "Neutral", "Neutral", "West">>

\* two records with the same label and different counts on both sides
C6_Witness ==
    /\ beh # NoReport
    /\ beh.occupation_zone_preference[1].preference = "Neutral"
    /\ beh.occupation_zone_preference[1].north_count
         > beh.occupation_zone_preference[1].west_count
    /\ beh.occupation_zone_preference[2].preference = "North"
    /\ beh.occupation_zone_preference[5].preference = "West"
    /\ beh_locals.zone_totals[1] # beh_locals.zone_totals[2]

\* C7: for every gate record, utilization_rate is count / total_transactions
\* * 100 rounded to 2 decimals (the nearest hundredth), with the
\* total_transactions of the same report; count 500 of 5000 gives 10.0.
C7_UtilizationRate ==
    /\ UtilizationRate(500, 5000) = 1000
    /\ ops # NoReport =>
          \A g \in Idx(ops.gate_utilization) :
              LET r == ops.gate_utilization[g]
                  err == r.utilization_rate * ops.total_transactions - 10000 * r.count
              IN  /\ 2 * err <= ops.total_transactions
                  /\ -2 * err <= ops.total_transactions

\* a gate whose rate is not a whole number of tenths: the second decimal shows
C7_Witness ==
    /\ ops # NoReport
    /\ \E g \in Idx(ops.gate_utilization) :
          /\ ops.gate_utilization[g].utilization_rate % 10 # 0
          /\ (10000 * ops.gate_utilization[g].count) % ops.total_transactions # 0

\* hours 6, 7, ..., 22 in ascending order, one record each
HourlyShape(records) ==
    /\ Len(records) = 17
    /\ \A i \in 1..17 : records[i].hour = 5 + i

\* C8: whatever is drawn, a generator returns the same structure: 17 hourly
\* records with hours 6..22 ascending (traffic_per_hour and
\* hour_gender_distribution), 8 gate records (4 North then 4 West), 9
\* origin-station records and 5 age-loyalty records.
C8_SameShape ==
    /\ ops # NoReport =>
          /\ HourlyShape(ops.traffic_per_hour)
          /\ Len(ops.gate_utilization) = 8
          /\ \A g \in 1..4 : ops.gate_utilization[g].zone = "North"
          /\ \A g \in 5..8 : ops.gate_utilization[g].zone = "West"
    /\ beh # NoReport =>
          /\ HourlyShape(beh.hour_gender_distribution)
          /\ Len(beh.age_loyalty_correlation) = 5
    /\ perj # NoReport => Len(perj.origin_distribution) = 9
    /\ demog # NoReport => Len(demog.origin_station_distribution) = 9

\* one request produced all the reports, with hourly counts that differ
C8_Witness ==
    /\ ops # NoReport /\ demog # NoReport /\ perj # NoReport /\ beh # NoReport
    /\ ops.traffic_per_hour[1].count # ops.traffic_per_hour[17].count
    /\ beh.hour_gender_distribution[1].pria_count
         # beh.hour_gender_distribution[17].pria_count

\* C9: in every composite report the five category reports, and the five
\* sections made from them, carry the date of the composite report itself.
C9_OneDate ==
    resp # NoReport =>
        /\ ops.date = resp.tanggal
        /\ demog.date = resp.tanggal
        /\ perj.date = resp.tanggal
        /\ loy.date = resp.tanggal
        /\ beh.date = resp.tanggal
        /\ resp.data.efisiensi_operasional.tanggal = resp.tanggal
        /\ resp.data.demografi.tanggal = resp.tanggal
        /\ resp.data.segmentasi_perjalanan.tanggal = resp.tanggal
        /\ resp.data.segmentasi_loyaltas.tanggal = resp.tanggal
        /\ resp.data.korelasi_perilaku.tanggal = resp.tanggal
        /\ resp.tanggal = (IF date = NoDate \/ date = "" THEN resp.tanggal ELSE date)
        /\ resp.tanggal \in {DayString[d + 1] : d \in 0..now} \cup {date}

\* a composite report whose date was defaulted on one day and returned on the
\* next: midnight passed while the request was served
C9_Witness ==
    /\ resp # NoReport
    /\ date = NoDate
    /\ now > 0
    /\ resp.tanggal = DayString[1]

\* the count and percentage fields of a renamed list equal those of the list
\* it was made from
SameCounts(indo, raw) ==
    /\ Len(indo) = Len(raw)
    /\ \A i \in Idx(raw) : indo[i].jumlah = raw[i].count
                           /\ indo[i].persentase = raw[i].percentage

\* C10: the aggregator draws nothing: when the composite report is returned
\* the generator has made exactly the draws of the five category generators,
\* every count and percentage of the data sections equals the field of the
\* category report it renames, and every value of the dashboard summary
\* equals the field of the category report it is taken from.
C10_PureComposition ==
    resp # NoReport =>
        LET sec == resp.data
            dash == resp.dashboard_summary
        IN  /\ pos = OpsDraws + DemogDraws + PerjDraws + LoyDraws + BehDraws
            /\ sec.efisiensi_operasional.total_transaksi = ops.total_transactions
            /\ \A i \in Idx(ops.traffic_per_hour) :
                  sec.efisiensi_operasional.trafik_per_jam[i].jumlah
                    = ops.traffic_per_hour[i].count
            /\ \A i \in Idx(ops.gate_utilization) :
                  /\ sec.efisiensi_operasional.penggunaan_gate[i].jumlah
                       = ops.gate_utilization[i].count
                  /\ sec.efisiensi_operasional.penggunaan_gate[i].tingkat_utilisasi
                       = ops.gate_utilization[i].utilization_rate
            /\ SameCounts(sec.efisiensi_operasional.trafik_per_zona, ops.traffic_by_zone)
            /\ SameCounts(sec.efisiensi_operasional.keseimbangan_arah,
                          ops.balance_direction)
            /\ sec.demografi.total_penumpang = demog.total_passengers
            /\ SameCounts(sec.demografi.distribusi_usia, demog.age_distribution)
            /\ SameCounts(sec.demografi.distribusi_pekerjaan,
                          demog.occupation_distribution)
            /\ SameCounts(sec.demografi.distribusi_gender, demog.gender_distribution)
            /\ SameCounts(sec.demografi.distribusi_stasiun_asal,
                          demog.origin_station_distribution)
            /\ sec.segmentasi_perjalanan.total_transaksi = perj.total_transactions
            /\ SameCounts(sec.segmentasi_perjalanan.distribusi_stasiun_awal,
                          perj.origin_distribution)
            /\ SameCounts(sec.segmentasi_perjalanan.distribusi_arah,
                          perj.direction_distribution)
            /\ SameCounts(sec.segmentasi_perjalanan.distribusi_waktu_perjalanan,
                          perj.time_travel_distribution)
            /\ sec.segmentasi_loyaltas.total_penumpang = loy.total_passengers
            /\ SameCounts(sec.segmentasi_loyaltas.segmentasi_loyal, loy.loyalty_segments)
            /\ \A i \in Idx(loy.loyalty_by_occupation) :
                  sec.segmentasi_loyaltas.loyal_berdasarkan_pekerjaan[i].jumlah_penumpang
                    = loy.loyalty_by_occupation[i].count
            /\ \A i \in Idx(beh.age_loyalty_correlation) :
                  sec.korelasi_perilaku.korelasi_usia_loyal[i].jumlah
                    = beh.age_loyalty_correlation[i].count
            /\ \A i \in Idx(beh.hour_gender_distribution) :
                  LET h == sec.korelasi_perilaku.distribusi_gender_per_jam[i]
                      r == beh.hour_gender_distribution[i]
                  IN  /\ h.jumlah_pria = r.pria_count
                      /\ h.jumlah_wanita = r.wanita_count
                      /\ h.persentase_pria = r.pria_percentage
                      /\ h.persentase_wanita = r.wanita_percentage
            /\ \A i \in Idx(beh.occupation_zone_preference) :
                  LET z == sec.korelasi_perilaku.preferensi_zona_pekerjaan[i]
                      r == beh.occupation_zone_preference[i]
                  IN  z.jumlah_utara = r.north_count /\ z.jumlah_barat = r.west_count
            /\ dash.total_transaksi = ops.total_transactions
            /\ dash.total_penumpang_unik = demog.total_passengers
            /\ dash.high_loyalty_penumpang = loy.summary.high_loyalty_percentage
            /\ dash.gate_id_full = ops.summary.busiest_gate
            /\ "TAP-" \o dash.gate_tersibuk = ops.summary.busiest_gate
            /\ dash.morning_peak_traffic = ops.summary.morning_peak_percentage
            /\ dash.evening_peak_traffic = ops.summary.evening_peak_percentage
            /\ dash.rata_rata_usia = demog.summary.average_age
            /\ dash.stasiun_asal_dominan = perj.summary.top_origin_station
            /\ dash.stasiun_asal_persentase = perj.summary.top_origin_percentage

\* a composite report over two reports whose totals of the same name differ
C10_Witness ==
    /\ resp # NoReport
    /\ ops.total_transactions # perj.total_transactions
    /\ resp.dashboard_summary.total_transaksi = ops.total_transactions

\* the five category reports, in the order of Generators
Reports == <<ops, demog, perj, loy, beh>>

\* the dates the clock has shown so far
DaysSoFar == {DayString[d + 1] : d \in 0..now}

\* C11 as stated: for every date string supplied, a malformed one and the
\* empty one included, the report of a generator carries the supplied string
\* unchanged; only when no date is supplied does it carry the current date.
C11_DateEchoed ==
    \A g \in Idx(Reports) :
        Reports[g] # NoReport =>
            IF DateArg # NoDate THEN Reports[g].date = DateArg
            ELSE Reports[g].date \in DaysSoFar

\* C11, amended: for every non-empty date string supplied, a malformed one
\* included, the report of a generator carries the supplied string unchanged;
\* when no date or the empty string is supplied it carries the current date.
C11_NonEmptyDateEchoed ==
    \A g \in Idx(Reports) :
        Reports[g] # NoReport =>
            IF DateArg # NoDate /\ DateArg # "" THEN Reports[g].date = DateArg
            ELSE Reports[g].date \in DaysSoFar

\* a generator called on its own with a string that is no date has returned
\* a report that carries it
C11_Witness ==
    /\ call = "loy"
    /\ pc = "done"
    /\ date = "31/31/xx"
    /\ loy.date = "31/31/xx"

\* C12: every division a generator performs has a strictly positive divisor:
\* no request fails with a division by zero, and in every report
\* total_transactions, total_passengers, each zone count, the sum of the three
\* loyalty tier counts, each hourly gender total and the count sums of the two
\* youngest and the two oldest age buckets are greater than 0.
C12_PositiveDivisors ==
    /\ pc # "failed"
    /\ ops # NoReport =>
          /\ ops.total_transactions > 0
          /\ \A z \in Idx(ops.traffic_by_zone) : ops.traffic_by_zone[z].count > 0
    /\ demog # NoReport => demog.total_passengers > 0
    /\ perj # NoReport => perj.total_transactions > 0
    /\ loy # NoReport =>
          /\ loy.total_passengers > 0
          /\ SumSeq(Counts(loy.loyalty_segments)) > 0
    /\ beh # NoReport =>
          /\ \A i \in Idx(beh.hour_gender_distribution) :
                /\ beh_locals.hour_totals[i] > 0
                /\ beh_locals.hour_totals[i]
                     = beh.hour_gender_distribution[i].pria_count
                       + beh.hour_gender_distribution[i].wanita_count
          /\ SumSeq(Counts(SubSeq(beh.age_loyalty_correlation, 1, 2))) > 0
          /\ SumSeq(Counts(SubSeq(beh.age_loyalty_correlation, 4, 5))) > 0

\* a finished request in which every hourly base and every jitter was drawn
\* at the lower end of its range: the smallest divisors there are
C12_Witness ==
    /\ pc = "done"
    /\ beh # NoReport
    /\ \A i \in Idx(beh.hour_gender_distribution) :
          beh_locals.hour_totals[i] = (50 * 850) \div 1000
    /\ ops # NoReport
    /\ ops.total_transactions = 4000

\* percentage (tenths of a percent) is count / total * 100 rounded to the
\* nearest tenth
IsPct1(percentage, count, total) ==
    LET err == percentage * total - 1000 * count
    IN  2 * err <= total /\ -2 * err <= total

\* every percentage of a record group is the share of the group's own total
ShareOfOwnGroup(records) ==
    \A i \in Idx(records) :
        IsPct1(records[i].percentage, records[i].count, SumSeq(Counts(records)))

\* C13 as stated: in every Demographics report the percentage of each age,
\* occupation and origin-station bucket is its count divided by the sum of
\* the counts of its own group, times 100, rounded to 1 decimal.
C13_PercentOfOwnGroup ==
    demog # NoReport =>
        /\ ShareOfOwnGroup(demog.age_distribution)
        /\ ShareOfOwnGroup(demog.occupation_distribution)
        /\ ShareOfOwnGroup(demog.origin_station_distribution)

\* C14: in every Loyalty report the percentage of each tier is its count
\* divided by the sum of the three tier counts (not by total_passengers),
\* times 100, rounded to 1 decimal; counts 1500, 1200, 900 give 41.7, 33.3
\* and 25.0.
C14_TierShareOfTierSum ==
    /\ TierPercentage(1500, 1500 + 1200 + 900, 4000) = 417
    /\ TierPercentage(1200, 1500 + 1200 + 900, 4000) = 333
    /\ TierPercentage(900, 1500 + 1200 + 900, 4000) = 250
    /\ loy # NoReport =>
          /\ Len(loy.loyalty_segments) = 3
          /\ ShareOfOwnGroup(loy.loyalty_segments)

\* a report whose tier sum is not total_passengers, with a tier whose share
\* of the one and of the other round to different tenths
C14_Witness ==
    /\ loy # NoReport
    /\ SumSeq(Counts(loy.loyalty_segments)) # loy.total_passengers
    /\ \E i \in Idx(loy.loyalty_segments) :
          ~IsPct1(loy.loyalty_segments[i].percentage, loy.loyalty_segments[i].count,
                  loy.total_passengers)

\* the positions in drawlog of the generator runs of task t
RunsOf(t) == {i \in Idx(drawlog) : drawlog[i].task = t}

\* C15: the generators of one aggregate request run one after another in the
\* order ops, demog, perj, loy, beh, and nothing suspends the request
\* between them: whatever requests the event loop serves, the draws of an
\* aggregate request are one block of the draw sequence, no draw of another
\* request falls between them, and at most one task runs at a time.
C15_DrawsNotInterleaved ==
    /\ \A t \in 1..MaxTasks : (tasks[t] # NoTask /\ tasks[t].state = "running") <=> running = t
    /\ \A t \in 1..MaxTasks :
          (tasks[t] # NoTask /\ tasks[t].call = "all") =>
              \A i \in RunsOf(t) :
                  LET k == Cardinality({j \in RunsOf(t) : j <= i})
                  IN  /\ k <= Len(Generators)
                      /\ drawlog[i].gen = Generators[k]
                      /\ k > 1 =>
                            /\ drawlog[i - 1].task = t
                            /\ drawlog[i].first = drawlog[i - 1].last + 1
                      /\ drawlog[i].last - drawlog[i].first + 1 = DrawsOf[k]

\* two aggregate requests have been served, the second of which arrived while
\* the first was between two of its generators
C15_Witness ==
    /\ MaxTasks >= 2
    /\ tasks[1] # NoTask /\ tasks[2] # NoTask
    /\ tasks[1].call = "all" /\ tasks[2].call = "all"
    /\ tasks[1].state = "done" /\ tasks[2].state = "done"
    /\ tasks[1].arrived = 0
    /\ tasks[2].arrived \in 1..4
    /\ Len(drawlog) = 2 * Len(Generators)

NearHundred(a, b) == a + b - 1000 < 10 /\ 1000 - (a + b) < 10

\* the percentage of the balance record of a zone (name without TAP-) and
\* direction
BalancePctOf(report, zone_name, direction) ==
    LET b == CHOOSE b \in Idx(report.balance_direction) :
                 /\ report.balance_direction[b].zone = zone_name
                 /\ report.balance_direction[b].direction = direction
    IN  report.balance_direction[b].percentage

\* C17 as stated: in every Operational Efficiency report the percentages of
\* the two zones sum to 100 up to rounding, and so do the IN and the OUT
\* percentage of each zone: each sum deviates from 100 by less than 1 point.
C17_SiblingPercentagesNear100 ==
    ops # NoReport =>
        /\ NearHundred(ops.traffic_by_zone[1].percentage,
                       ops.traffic_by_zone[2].percentage)
        /\ \A z \in Idx(Zones) :
              NearHundred(BalancePctOf(ops, Upper(Zones[z]), "IN"),
                          BalancePctOf(ops, Upper(Zones[z]), "OUT"))

\* C18: in every Operational Efficiency report busiest_gate is the gate_id
\* of the gate record whose count is at least every other gate count (the
\* first such record on ties), busiest_zone is the zone whose count is at
\* least the other zone's, and morning_peak_transactions and
\* evening_peak_transactions are the sums of the hourly counts of hours 7-9
\* and 16-19.
C18_BusiestAndPeaks ==
    ops # NoReport =>
        LET gates == ops.gate_utilization
            zones == ops.traffic_by_zone
            hours == ops.traffic_per_hour
        IN  /\ \E g \in Idx(gates) :
                  /\ gates[g].gate_id = ops.summary.busiest_gate
                  /\ \A h \in Idx(gates) : gates[h].count <= gates[g].count
                  /\ \A h \in 1..(g - 1) : gates[h].count < gates[g].count
            /\ \A g, h \in Idx(gates) : g # h => gates[g].gate_id # gates[h].gate_id
            /\ \E z \in Idx(zones) :
                  /\ zones[z].zone = ops.summary.busiest_zone
                  /\ \A y \in Idx(zones) : zones[y].count <= zones[z].count
            /\ ops.summary.morning_peak_transactions
                 = SumOver(Counts(hours), {i \in Idx(hours) : hours[i].hour \in 7..9},
                           Len(hours))
            /\ ops.summary.evening_peak_transactions
                 = SumOver(Counts(hours), {i \in Idx(hours) : hours[i].hour \in 16..19},
                           Len(hours))

\* a report in which two gates share the greatest count and the first of
\* them was named, and whose two peak sums differ
C18_Witness ==
    /\ ops # NoReport
    /\ \E g, h \in Idx(ops.gate_utilization) :
          /\ g < h
          /\ ops.gate_utilization[g].count = ops.gate_utilization[h].count
          /\ \A k \in Idx(ops.gate_utilization) :
                ops.gate_utilization[k].count <= ops.gate_utilization[g].count
          /\ ops.summary.busiest_gate = ops.gate_utilization[g].gate_id
    /\ ops.summary.morning_peak_transactions # ops.summary.evening_peak_transactions

\* twice the midpoints 21, 29.5, 39.5, 49.5 and 60 of the five age ranges
TwiceMidpoints == <<42, 59, 79, 99, 120>>

\* C19: in every Demographics report average_age is the unweighted mean of
\* the midpoints of the five age ranges, '55+' taken as 60, that is 39.9,
\* whatever the bucket counts are.
C19_AverageAgeUnweighted ==
    demog # NoReport =>
        /\ [i \in Idx(demog.age_distribution) |-> demog.age_distribution[i].age_range]
             = <<"18-24", "25-34", "35-44", "45-54", "55+">>
        /\ demog.summary.average_age * 2 * Len(TwiceMidpoints)
             = 10 * SumSeq(TwiceMidpoints)
        /\ demog.summary.average_age = 399

\* a report whose bucket counts would give another mean age if they weighed
C19_Witness ==
    /\ demog # NoReport
    /\ LET counts == Counts(demog.age_distribution)
       IN  10 * SumSeq([i \in Idx(counts) |-> counts[i] * TwiceMidpoints[i]])
             # 399 * 2 * SumSeq(counts)
    /\ demog.age_distribution[1].count > demog.age_distribution[5].count

\* sum of frequency times count, and of count, over the age records whose age
\* is in S
FreqTimesCount(records, S) ==
    SumSeq([i \in Idx(records) |->
              IF records[i].age \in S
              THEN records[i].avg_loyalty_frequency * records[i].count ELSE 0])
CountOfAges(records, S) ==
    SumSeq([i \in Idx(records) |-> IF records[i].age \in S THEN records[i].count ELSE 0])

\* the count-weighted mean frequency of the ages in S is strictly greater
\* than that of the ages in T (both count sums are positive)
MeanGreater(records, S, T) ==
    FreqTimesCount(records, S) * CountOfAges(records, T)
      > FreqTimesCount(records, T) * CountOfAges(records, S)

\* C20: age_loyalty_insight is 'Positif' exactly when the count-weighted mean
\* frequency of the buckets 45 and 55 is strictly greater than that of the
\* buckets 22 and 28, and 'Negatif/Netral' in every other case, equality
\* included; bucket 35 has no part in it.
C20_InsightFromOuterBuckets ==
    beh # NoReport =>
        /\ CountOfAges(beh.age_loyalty_correlation, {45, 55}) > 0
        /\ CountOfAges(beh.age_loyalty_correlation, {22, 28}) > 0
        /\ beh.summary.age_loyalty_insight \in {"Positif", "Negatif/Netral"}
        /\ beh.summary.age_loyalty_insight = "Positif"
             <=> MeanGreater(beh.age_loyalty_correlation, {45, 55}, {22, 28})

\* a report with the verdict 'Negatif/Netral' where the buckets 35, 45 and 55
\* together have a greater mean than the buckets 22 and 28: bucket 35 would
\* have turned the verdict
C20_Witness ==
    /\ beh # NoReport
    /\ beh.summary.age_loyalty_insight = "Negatif/Netral"
    /\ MeanGreater(beh.age_loyalty_correlation, {35, 45, 55}, {22, 28})

\* C21 as stated: in every Behavior Correlation report the record at the
\* fixed morning offset has an hour of the morning band 6-11 and the record
\* at the fixed evening offset an hour of the evening band 16-19, and
\* dominant_gender_morning and dominant_gender_evening are 'Pria' exactly
\* when the pria_percentage of that record exceeds 50.
C21_OffsetsInBands ==
    beh # NoReport =>
        LET morning == beh.hour_gender_distribution[MorningIndex + 1]
            evening == beh.hour_gender_distribution[EveningIndex + 1]
        IN  /\ morning.hour \in 6..11
            /\ evening.hour \in 16..19
            /\ beh.summary.dominant_gender_morning = "Pria"
                 <=> morning.pria_percentage > 500
            /\ beh.summary.dominant_gender_evening = "Pria"
                 <=> evening.pria_percentage > 500

\* a percentage in tenths, or a rate in hundredths, between 0 and 100
InPct1(x) == 0 <= x /\ x <= 1000
InPct2(x) == 0 <= x /\ x <= 10000
AllInPct1(records) == \A i \in Idx(records) : InPct1(records[i].percentage)

\* C22 as stated: every percentage-valued field of every category report
\* (record percentages, utilization rates, the percentage fields of the
\* summaries) lies between 0 and 100 inclusive.
C22_PercentagesWithin100 ==
    /\ ops # NoReport =>
          /\ \A g \in Idx(ops.gate_utilization) :
                InPct2(ops.gate_utilization[g].utilization_rate)
          /\ AllInPct1(ops.traffic_by_zone)
          /\ AllInPct1(ops.balance_direction)
          /\ InPct1(ops.summary.morning_peak_percentage)
          /\ InPct1(ops.summary.evening_peak_percentage)
          /\ InPct2(ops.summary.avg_gate_utilization_rate)
    /\ demog # NoReport =>
          /\ AllInPct1(demog.age_distribution)
          /\ AllInPct1(demog.occupation_distribution)
          /\ AllInPct1(demog.gender_distribution)
          /\ AllInPct1(demog.origin_station_distribution)
          /\ InPct1(demog.summary.productive_age_percentage)
          /\ InPct1(demog.summary.worker_percentage)
          /\ demog.summary.worker_passengers <= demog.total_passengers
    /\ perj # NoReport =>
          /\ AllInPct1(perj.origin_distribution)
          /\ AllInPct1(perj.direction_distribution)
          /\ AllInPct1(perj.time_travel_distribution)
          /\ InPct1(perj.summary.top_origin_percentage)
          /\ InPct1(perj.summary.dominant_time_percentage)
    /\ loy # NoReport =>
          /\ AllInPct1(loy.loyalty_segments)
          /\ InPct1(loy.summary.high_loyalty_percentage)
          /\ InPct1(loy.summary.loyal_workers_percentage)
    /\ beh # NoReport =>
          \A i \in Idx(beh.hour_gender_distribution) :
              /\ InPct1(beh.hour_gender_distribution[i].pria_percentage)
              /\ InPct1(beh.hour_gender_distribution[i].wanita_percentage)

\* a strictly positive integer
Positive(x) == x \in Nat /\ x > 0
AllPositive(records) == \A i \in Idx(records) : Positive(records[i].count)

\* C23: every count field of every record of every category report is a
\* strictly positive integer, the counts obtained as a complement (Wanita,
\* trip OUT, hourly wanita_count, west_count) and those obtained by
\* truncating a jittered value included.
C23_CountsPositive ==
    /\ ops # NoReport =>
          /\ AllPositive(ops.traffic_per_hour)
          /\ AllPositive(ops.gate_utilization)
          /\ AllPositive(ops.traffic_by_zone)
          /\ AllPositive(ops.balance_direction)
    /\ demog # NoReport =>
          /\ AllPositive(demog.age_distribution)
          /\ AllPositive(demog.occupation_distribution)
          /\ AllPositive(demog.gender_distribution)
          /\ AllPositive(demog.origin_station_distribution)
    /\ perj # NoReport =>
          /\ AllPositive(perj.origin_distribution)
          /\ AllPositive(perj.direction_distribution)
          /\ AllPositive(perj.time_travel_distribution)
    /\ loy # NoReport =>
          /\ AllPositive(loy.loyalty_segments)
          /\ AllPositive(loy.loyalty_by_occupation)
    /\ beh # NoReport =>
          /\ AllPositive(beh.age_loyalty_correlation)
          /\ \A i \in Idx(beh.hour_gender_distribution) :
                /\ Positive(beh.hour_gender_distribution[i].pria_count)
                /\ Positive(beh.hour_gender_distribution[i].wanita_count)
          /\ \A i \in Idx(beh.occupation_zone_preference) :
                /\ Positive(beh.occupation_zone_preference[i].north_count)
                /\ Positive(beh.occupation_zone_preference[i].west_count)

\* one request has produced the five reports with every draw at the lower
\* end: two hourly gender records split the smallest total, 42, and the
\* smallest occupation count is 85
C23_Witness ==
    /\ \A g \in Idx(Reports) : Reports[g] # NoReport
    /\ beh.hour_gender_distribution[1].pria_count
         + beh.hour_gender_distribution[1].wanita_count = 42
    /\ beh.hour_gender_distribution[11].wanita_count
         + beh.hour_gender_distribution[11].pria_count = 42
    /\ demog.occupation_distribution[5].count = 85

\* the hourly records with a peak label, and those with the empty label
PeakHours(records) ==
    {i \in Idx(records) : records[i].period \in {"Morning Peak", "Evening Peak"}}
OffPeakHours(records) == {i \in Idx(records) : records[i].period = ""}

\* C24: in every Operational Efficiency report the hours 7-9 are labelled
\* 'Morning Peak', the hours 16-19 'Evening Peak' and every other hour has
\* the empty label, and every record with a peak label has a count strictly
\* greater than the count of every record with the empty label.
C24_PeakAboveOffPeak ==
    ops # NoReport =>
        LET records == ops.traffic_per_hour
        IN  /\ \A i \in Idx(records) :
                  /\ records[i].period = "Morning Peak" <=> records[i].hour \in 7..9
                  /\ records[i].period = "Evening Peak" <=> records[i].hour \in 16..19
                  /\ records[i].period \in {"Morning Peak", "Evening Peak", ""}
            /\ \A i \in PeakHours(records), j \in OffPeakHours(records) :
                  records[i].count > records[j].count

\* a report with a peak hour at its least count, 340, and an off-peak hour at
\* its greatest, 230
C24_Witness ==
    /\ ops # NoReport
    /\ \E i \in PeakHours(ops.traffic_per_hour) :
          ops.traffic_per_hour[i].count = (400 * 850) \div 1000
    /\ \E j \in OffPeakHours(ops.traffic_per_hour) :
          ops.traffic_per_hour[j].count = (200 * 1150) \div 1000

\* C25 as stated: in every composite report the two age-loyalty verdicts of
\* the behaviour section agree: insight_ai.korelasi_usia is 'Positif' exactly
\* when ringkasan.insight_korelasi_usia_loyal is 'Positif'.
C25_AgeVerdictsAgree ==
    resp # NoReport =>
        LET section == resp.data.korelasi_perilaku
        IN  section.insight_ai.korelasi_usia = "Positif"
              <=> section.ringkasan.insight_korelasi_usia_loyal = "Positif"

====
